---- MODULE Spec2Model ----
(***************************************************************************)
(* Model of examples/nlp/token_classification/scripts/                     *)
(* token_classification_evaluate.py: the function main(cfg), one action    *)
(* per statement (or per if/else block) of its body.                       *)
(*                                                                         *)
(* A path or name is a sequence of tokens, the token "/" being the path    *)
(* separator, so that os.path.join is computed and not assumed.            *)
(* A configuration value is a record [present, val]; an absent key and a   *)
(* key set to None are both present = FALSE.                               *)
(***************************************************************************)
EXTENDS Integers, Sequences, FiniteSets, TLC

VARIABLES cfg, fs, available, pc, gpu, trainer, exp_dir, model, data_dir,
          prepared, calls, checks, error

vars == <<cfg, fs, available, pc, gpu, trainer, exp_dir, model, data_dir,
          prepared, calls, checks, error>>

\* ------------------------------------------------------------------ bounds
MaxGpus == 2

\* ------------------------------------------------------- the input universe
Absent == [present |-> FALSE, val |-> <<>>]

Some(s) == [present |-> TRUE, val |-> s]

GpuValues == -1 .. MaxGpus

ModelRefs == {Absent, Some(<<>>), Some(<<"model.nemo">>), Some(<<"NERModel">>),
              Some(<<"unknown">>)}

DataDirs == {Absent, Some(<<>>), Some(<<"data">>), Some(<<"data", "/">>)}

TextFiles == {<<"text.txt">>, <<"/", "text.txt">>}

LabelsFiles == {<<"labels.txt">>}

ExpDirs == {<<"exp">>, <<"/", "exp">>}

FsUniverse == {<<"model.nemo">>, <<"NERModel">>, <<"data">>, <<"data", "/">>}

NameUniverse == {<<"NERModel">>, <<"model.nemo">>}

\* ------------------------------------------------------------ pure helpers

\* hasattr(cfg.model, 'test_ds')
HasTestDsSkipped(c) == TRUE

HasTestDs(c) == c.has_test_ds

\* truthiness of a configuration value: None and '' are falsy
TruthyPresentOnly(v) == v.present

Truthy(v) == v.present /\ v.val # <<>>

\* os.path.exists(p) against the file system of the run
ExistsAlways(p, files) == TRUE

Exists(p, files) == p \in files

\* gpu = 1 if cfg.trainer.gpus != 0 else 0
GpuForPassThrough(g) == g

GpuFor(g) == IF g # 0 THEN 1 ELSE 0

\* os.path.join(a, b) for two components (posixpath)
Join(a, b) ==
    IF b # <<>> /\ b[1] = "/" THEN b
    ELSE IF a = <<>> \/ a[Len(a)] = "/" THEN a \o b
    ELSE a \o <<"/">> \o b

\* the if / elif / else of the checkpoint resolution
ResolveNameFirst(pm, files, names) ==
    IF pm \in names THEN "from_pretrained"
    ELSE IF Exists(pm, files) THEN "restore_from"
    ELSE "error"

ResolveLenient(pm, files, names) ==
    IF Exists(pm, files) THEN "restore_from" ELSE "from_pretrained"

Resolve(pm, files, names) ==
    IF Exists(pm, files) THEN "restore_from"
    ELSE IF pm \in names THEN "from_pretrained"
    ELSE "error"

\* the keyword arguments of model.evaluate_from_file: text_file, labels_file, output_dir
EvalArgsSwapped(dd, c, ed) ==
    <<Join(dd, c.labels_file), Join(dd, c.text_file), ed>>

EvalArgs(dd, c, ed) ==
    <<Join(dd, c.text_file), Join(dd, c.labels_file), ed>>

\* where the if / else on the result of model.prepare_test(trainer) goes
AfterPrepareIgnored(ok) == "setup_test_data"

AfterPrepare(ok) == IF ok THEN "setup_test_data" ELSE "aborted"

Call(op, args) == [op |-> op, args |-> args]

NoModel == [source |-> "none", ref |-> <<>>, data_dir |-> <<>>, use_cache |-> TRUE]

\* ------------------------------------------------------------------- Init
Init ==
    /\ cfg \in [has_test_ds : BOOLEAN, gpus : GpuValues, pretrained_model : ModelRefs,
                data_dir : DataDirs, text_file : TextFiles, labels_file : LabelsFiles]
    /\ fs \in SUBSET FsUniverse
    /\ available \in SUBSET NameUniverse
    /\ pc = "check_test_ds"
    /\ gpu = -1
    /\ trainer = [constructed |-> FALSE, gpus |-> -1]
    /\ exp_dir = <<>>
    /\ model = NoModel
    /\ data_dir = Absent
    /\ prepared = "not_called"
    /\ calls = <<>>
    /\ checks = <<>>
    /\ error = "none"

Abort(e) == pc' = "aborted" /\ error' = e

\* ---------------------------------------------------------------- actions

\* lines 59-62
CheckTestDs ==
    /\ pc = "check_test_ds"
    /\ checks' = Append(checks, "test_ds")
    /\ IF ~HasTestDs(cfg)
       THEN Abort("test_ds_missing") /\ UNCHANGED gpu
       ELSE pc' = "trainer" /\ gpu' = GpuFor(cfg.gpus) /\ UNCHANGED error
    /\ UNCHANGED <<prepared, cfg, fs, available, trainer, exp_dir, model, data_dir, calls>>

\* lines 64-70
MakeTrainer ==
    /\ pc = "trainer"
    /\ trainer' = [constructed |-> TRUE, gpus |-> gpu]
    /\ calls' = Append(calls, Call("Trainer", <<>>))
    /\ pc' = "exp_manager"
    /\ UNCHANGED <<prepared, cfg, fs, available, gpu, exp_dir, model, data_dir, checks, error>>

\* line 71
ExpManager ==
    /\ pc = "exp_manager"
    /\ \E d \in ExpDirs : exp_dir' = d
    /\ calls' = Append(calls, Call("exp_manager", <<>>))
    /\ pc' = "check_pretrained"
    /\ UNCHANGED <<prepared, cfg, fs, available, gpu, trainer, model, data_dir, checks, error>>

\* lines 73-77
CheckPretrained ==
    /\ pc = "check_pretrained"
    /\ checks' = Append(checks, "pretrained_model")
    /\ IF ~Truthy(cfg.pretrained_model)
       THEN Abort("pretrained_model_missing")
       ELSE pc' = "resolve" /\ UNCHANGED error
    /\ UNCHANGED <<prepared, cfg, fs, available, gpu, trainer, exp_dir, model, data_dir, calls>>

\* lines 79-86
ResolveModel ==
    /\ pc = "resolve"
    /\ LET pm == cfg.pretrained_model.val
           how == Resolve(pm, fs, available)
           looked == IF Exists(pm, fs)
                     THEN <<Call("os.path.exists", <<pm>>)>>
                     ELSE <<Call("os.path.exists", <<pm>>),
                            Call("get_available_model_names", <<>>)>>
       IN /\ checks' = Append(checks, "resolvable")
          /\ IF how = "error"
             THEN /\ calls' = calls \o looked \o <<Call("list_available_models", <<>>)>>
                  /\ Abort("model_unresolvable")
                  /\ UNCHANGED model
             ELSE /\ calls' = calls \o looked \o <<Call(how, <<pm>>)>>
                  /\ \E uc \in BOOLEAN :
                        model' = [source |-> how, ref |-> pm, data_dir |-> <<>>,
                                  use_cache |-> uc]
                  /\ pc' = "check_data_dir"
                  /\ UNCHANGED error
    /\ UNCHANGED <<prepared, cfg, fs, available, gpu, trainer, exp_dir, data_dir>>

\* lines 88-93
CheckDataDir ==
    /\ pc = "check_data_dir"
    /\ data_dir' = cfg.data_dir
    /\ checks' = Append(checks, "data_dir_set")
    /\ IF ~Truthy(cfg.data_dir)
       THEN Abort("data_dir_missing")
       ELSE pc' = "check_exists" /\ UNCHANGED error
    /\ UNCHANGED <<prepared, cfg, fs, available, gpu, trainer, exp_dir, model, calls>>

\* lines 95-96
CheckDataDirExists ==
    /\ pc = "check_exists"
    /\ checks' = Append(checks, "data_dir_exists")
    /\ calls' = Append(calls, Call("os.path.exists", <<data_dir.val>>))
    /\ IF ~Exists(data_dir.val, fs)
       THEN Abort("data_dir_not_found")
       ELSE pc' = "update_data_dir" /\ UNCHANGED error
    /\ UNCHANGED <<prepared, cfg, fs, available, gpu, trainer, exp_dir, model, data_dir>>

\* line 98
UpdateDataDir ==
    /\ pc = "update_data_dir"
    /\ model' = [model EXCEPT !.data_dir = data_dir.val]
    /\ calls' = Append(calls, Call("update_data_dir", <<data_dir.val>>))
    /\ pc' = "use_cache"
    /\ UNCHANGED <<prepared, cfg, fs, available, gpu, trainer, exp_dir, data_dir, checks, error>>

\* line 99
DisableCache ==
    /\ pc = "use_cache"
    /\ model' = [model EXCEPT !.use_cache = FALSE]
    /\ calls' = Append(calls, Call("use_cache=False", <<>>))
    /\ pc' = "prepare_test"
    /\ UNCHANGED <<prepared, cfg, fs, available, gpu, trainer, exp_dir, data_dir, checks, error>>

\* lines 101-104 and 107-108
PrepareTest ==
    /\ pc = "prepare_test"
    /\ IF ~HasTestDs(cfg)
       THEN /\ checks' = Append(checks, "test_ds")
            /\ Abort("test_ds_missing")
            /\ UNCHANGED <<calls, prepared>>
       ELSE \E ok \in BOOLEAN :
            /\ checks' = checks \o <<"test_ds", "prepare_test">>
            /\ calls' = Append(calls, Call("prepare_test", <<>>))
            /\ prepared' = IF ok THEN "true" ELSE "false"
            /\ pc' = AfterPrepare(ok)
            /\ error' = IF ok THEN error ELSE "terminating_evaluation"
    /\ UNCHANGED <<cfg, fs, available, gpu, trainer, exp_dir, model, data_dir>>

\* line 105
SetupTestDataSkipsTest ==
    /\ pc = "setup_test_data"
    /\ calls' = Append(calls, Call("setup_test_data", <<>>))
    /\ pc' = "evaluate"
    /\ UNCHANGED <<prepared, cfg, fs, available, gpu, trainer, exp_dir, model, data_dir, checks, error>>

SetupTestData ==
    /\ pc = "setup_test_data"
    /\ calls' = Append(calls, Call("setup_test_data", <<>>))
    /\ pc' = "trainer_test"
    /\ UNCHANGED <<prepared, cfg, fs, available, gpu, trainer, exp_dir, model, data_dir, checks, error>>

\* line 106
TrainerTest ==
    /\ pc = "trainer_test"
    /\ calls' = Append(calls, Call("trainer.test", <<>>))
    /\ pc' = "evaluate"
    /\ UNCHANGED <<prepared, cfg, fs, available, gpu, trainer, exp_dir, model, data_dir, checks, error>>

\* lines 110-116
EvaluateFromFile ==
    /\ pc = "evaluate"
    /\ calls' = Append(calls, Call("evaluate_from_file", EvalArgs(data_dir.val, cfg, exp_dir)))
    /\ pc' = "predict"
    /\ UNCHANGED <<prepared, cfg, fs, available, gpu, trainer, exp_dir, model, data_dir, checks, error>>

\* lines 119-120
AddPredictions ==
    /\ pc = "predict"
    /\ calls' = Append(calls, Call("add_predictions", <<<<"predictions.txt">>>>))
    /\ pc' = "log"
    /\ UNCHANGED <<prepared, cfg, fs, available, gpu, trainer, exp_dir, model, data_dir, checks, error>>

\* lines 122-126
LogResults ==
    /\ pc = "log"
    /\ pc' = "done"
    /\ UNCHANGED <<prepared, cfg, fs, available, gpu, trainer, exp_dir, model, data_dir, calls,
                   checks, error>>

Next ==
    \/ CheckTestDs
    \/ MakeTrainer
    \/ ExpManager
    \/ CheckPretrained
    \/ ResolveModel
    \/ CheckDataDir
    \/ CheckDataDirExists
    \/ UpdateDataDir
    \/ DisableCache
    \/ PrepareTest
    \/ SetupTestData
    \/ TrainerTest
    \/ EvaluateFromFile
    \/ AddPredictions
    \/ LogResults

Spec == Init /\ [][Next]_vars

\* main is one sequential procedure and every call it makes returns: a step
\* that is enabled is eventually taken
FairSpec == Spec /\ WF_vars(Next)

\* ------------------------------------------------- reading the call history
HasCall(op) == \E i \in 1 .. Len(calls) : calls[i].op = op

CountCall(op) == Cardinality({i \in 1 .. Len(calls) : calls[i].op = op})

IndexOf(op) == CHOOSE i \in 1 .. Len(calls) : calls[i].op = op

Terminated == pc \in {"done", "aborted"}

PmFalsy == ~cfg.pretrained_model.present \/ cfg.pretrained_model.val = <<>>

PmUnresolvable ==
    /\ cfg.pretrained_model.val \notin fs
    /\ cfg.pretrained_model.val \notin available

DdFalsy == ~cfg.data_dir.present \/ cfg.data_dir.val = <<>>

DdBad == DdFalsy \/ cfg.data_dir.val \notin fs

LoadOps == {"restore_from", "from_pretrained"}

EvaluationOps == {"update_data_dir", "prepare_test", "setup_test_data", "trainer.test",
                  "evaluate_from_file", "add_predictions"}

\* ------------------------------------------------------------------ claims

\* C1: when cfg.model has no test_ds, main aborts at the very first check with
\* the test_ds error: the trainer is never constructed, exp_manager is never
\* called and no model is loaded, whatever pretrained_model and data_dir are.
C1_NoTestDsAbortsFirst ==
    ~cfg.has_test_ds =>
        /\ pc \in {"check_test_ds", "aborted"}
        /\ calls = <<>>
        /\ ~trainer.constructed
        /\ model.source = "none"
        /\ pc = "aborted" => error = "test_ds_missing" /\ checks = <<"test_ds">>

C1_Witness ==
    /\ ~cfg.has_test_ds
    /\ pc = "aborted"
    /\ cfg.pretrained_model = Some(<<"model.nemo">>)
    /\ <<"model.nemo">> \in fs
    /\ cfg.data_dir = Some(<<"data">>)
    /\ <<"data">> \in fs

\* C2: with test_ds present and pretrained_model empty or absent, main aborts
\* with the pretrained-model error, loads no model and never looks
\* pretrained_model up in the file system or among the model names.
C2_FalsyPretrainedAborts ==
    (cfg.has_test_ds /\ PmFalsy) =>
        /\ pc \in {"check_test_ds", "trainer", "exp_manager", "check_pretrained", "aborted"}
        /\ pc = "aborted" => error = "pretrained_model_missing"
        /\ model.source = "none"
        /\ \A op \in LoadOps \cup {"os.path.exists", "get_available_model_names",
                                   "list_available_models"} : ~HasCall(op)

C2_Witness ==
    /\ cfg.has_test_ds
    /\ cfg.pretrained_model = Some(<<>>)
    /\ pc = "aborted"
    /\ error = "pretrained_model_missing"
    /\ HasCall("exp_manager")

\* C3: with test_ds present and a non-empty pretrained_model that is neither an
\* existing path nor an available model name, main aborts with the error that
\* lists the available models; no model is loaded and no later delegated call
\* is made.
C3_UnresolvableAborts ==
    (cfg.has_test_ds /\ ~PmFalsy /\ PmUnresolvable) =>
        /\ pc \in {"check_test_ds", "trainer", "exp_manager", "check_pretrained",
                   "resolve", "aborted"}
        /\ pc = "aborted" =>
              /\ error = "model_unresolvable"
              /\ calls[Len(calls)].op = "list_available_models"
        /\ model.source = "none"
        /\ \A op \in LoadOps \cup EvaluationOps : ~HasCall(op)

C3_Witness ==
    /\ cfg.has_test_ds
    /\ cfg.pretrained_model = Some(<<"unknown">>)
    /\ pc = "aborted"
    /\ error = "model_unresolvable"
    /\ HasCall("get_available_model_names")

\* C4: when data_dir is absent, empty or not an existing path, the run never
\* completes and none of update_data_dir, prepare_test, setup_test_data,
\* trainer.test, evaluate_from_file, add_predictions is invoked.
C4_BadDataDirNoEvaluation ==
    DdBad =>
        /\ pc # "done"
        /\ model.data_dir = <<>>
        /\ \A op \in EvaluationOps : ~HasCall(op)
        /\ error \in {"data_dir_missing", "data_dir_not_found"} => pc = "aborted"

C4_Witness ==
    /\ cfg.data_dir = Some(<<"data">>)
    /\ <<"data">> \notin fs
    /\ pc = "aborted"
    /\ error = "data_dir_not_found"
    /\ model.source = "from_pretrained"

\* C5: once all checks have passed and prepare_test returned true,
\* evaluate_from_file is invoked exactly once with text_file = data_dir joined
\* with test_ds.text_file, labels_file = data_dir joined with
\* test_ds.labels_file and output_dir = the directory exp_manager returned,
\* data_dir being the value that was checked for existence and given to
\* update_data_dir.
C5_EvaluateFromFileArgs ==
    pc \in {"predict", "log", "done"} =>
        /\ prepared = "true"
        /\ CountCall("evaluate_from_file") = 1
        /\ CountCall("update_data_dir") = 1
        /\ cfg.data_dir.val \in fs
        /\ calls[IndexOf("update_data_dir")].args = <<cfg.data_dir.val>>
        /\ calls[IndexOf("update_data_dir") - 1] =
              Call("os.path.exists", <<cfg.data_dir.val>>)
        /\ calls[IndexOf("evaluate_from_file")].args =
              <<Join(cfg.data_dir.val, cfg.text_file),
                Join(cfg.data_dir.val, cfg.labels_file),
                exp_dir>>
        /\ exp_dir \in ExpDirs

C5_Witness ==
    /\ pc = "done"
    /\ cfg.data_dir = Some(<<"data">>)
    /\ cfg.text_file = <<"text.txt">>
    /\ calls[IndexOf("evaluate_from_file")].args =
          <<(<<"data", "/", "text.txt">>), (<<"data", "/", "labels.txt">>), (<<"exp">>)>>

\* C6: when prepare_test returns false, main aborts with the 'Terminating
\* evaluation' error and none of setup_test_data, trainer.test,
\* evaluate_from_file, add_predictions is invoked; trainer.test is invoked only
\* after prepare_test returned true and setup_test_data was called.
C6_PrepareTestRefusalFatal ==
    /\ prepared = "false" =>
          /\ pc = "aborted"
          /\ error = "terminating_evaluation"
          /\ calls[Len(calls)].op = "prepare_test"
          /\ \A op \in {"setup_test_data", "trainer.test", "evaluate_from_file",
                        "add_predictions"} : ~HasCall(op)
    /\ HasCall("trainer.test") =>
          /\ prepared = "true"
          /\ HasCall("setup_test_data")
          /\ IndexOf("prepare_test") < IndexOf("setup_test_data")
          /\ IndexOf("setup_test_data") < IndexOf("trainer.test")

C6_Witness ==
    /\ prepared = "false"
    /\ pc = "aborted"
    /\ error = "terminating_evaluation"

\* C7: the checks run in the fixed order test_ds, pretrained_model non-empty,
\* pretrained_model resolvable, data_dir set, data_dir exists, prepare_test;
\* a run aborts at the first check that fails with that check's error, having
\* evaluated no later check, and the aborted state is terminal.
CheckOrder == <<"test_ds", "pretrained_model", "resolvable", "data_dir_set",
                "data_dir_exists", "prepare_test">>

ErrorOfCheck == <<"test_ds_missing", "pretrained_model_missing", "model_unresolvable",
                  "data_dir_missing", "data_dir_not_found", "terminating_evaluation">>

\* the checks of the run, each at its first evaluation
FirstEvaluations ==
    LET first == {i \in 1 .. Len(checks) : \A j \in 1 .. i - 1 : checks[j] # checks[i]}
        F[i \in 0 .. Len(checks)] ==
            IF i = 0 THEN <<>>
            ELSE IF i \in first THEN Append(F[i - 1], checks[i]) ELSE F[i - 1]
    IN F[Len(checks)]

\* the first check, in the fixed order, that the inputs of the run fail (0: none)
FirstFailing ==
    IF ~cfg.has_test_ds THEN 1
    ELSE IF PmFalsy THEN 2
    ELSE IF PmUnresolvable THEN 3
    ELSE IF DdFalsy THEN 4
    ELSE IF cfg.data_dir.val \notin fs THEN 5
    ELSE IF prepared = "false" THEN 6
    ELSE 0

C7_Inv ==
    /\ \E n \in 0 .. Len(CheckOrder) : FirstEvaluations = SubSeq(CheckOrder, 1, n)
    /\ pc = "aborted" =>
          /\ FirstFailing # 0
          /\ error = ErrorOfCheck[FirstFailing]
          /\ FirstEvaluations = SubSeq(CheckOrder, 1, FirstFailing)
    /\ pc # "aborted" =>
          /\ error = "none"
          /\ FirstFailing # 0 => Len(FirstEvaluations) < FirstFailing

C7_FirstFailureFatal == []C7_Inv /\ [][pc # "aborted"]_vars

C7_Witness ==
    /\ pc = "aborted"
    /\ error = "data_dir_missing"
    /\ <<"data">> \notin fs
    /\ checks = SubSeq(CheckOrder, 1, 4)

\* C8: in every run that gets past resolution exactly one of restore_from and
\* from_pretrained is invoked, once; restore_from iff pretrained_model is an
\* existing path (also when it is a known name too), from_pretrained iff it is
\* not an existing path and is a known name.
PastResolution ==
    /\ pc \notin {"check_test_ds", "trainer", "exp_manager", "check_pretrained", "resolve"}
    /\ ~(pc = "aborted" /\ error \in {"test_ds_missing", "pretrained_model_missing",
                                      "model_unresolvable"})

C8_CheckpointResolution ==
    /\ PastResolution =>
          /\ CountCall("restore_from") + CountCall("from_pretrained") = 1
          /\ HasCall("restore_from") <=> cfg.pretrained_model.val \in fs
          /\ HasCall("from_pretrained") <=>
                (cfg.pretrained_model.val \notin fs /\ cfg.pretrained_model.val \in available)
          /\ model.source \in LoadOps /\ HasCall(model.source)
          /\ calls[IndexOf(model.source)].args = <<cfg.pretrained_model.val>>
    /\ ~PastResolution => \A op \in LoadOps : ~HasCall(op)

C8_Witness ==
    /\ pc = "done"
    /\ cfg.pretrained_model.val \in fs
    /\ cfg.pretrained_model.val \in available
    /\ HasCall("restore_from")
    /\ ~HasCall("from_pretrained")

\* C9: every run terminates, aborted by one error or completed; a completed
\* run made the delegated calls exactly once each in the order Trainer,
\* exp_manager, model load, update_data_dir, use_cache = False, prepare_test,
\* setup_test_data, trainer.test, evaluate_from_file, add_predictions.
DelegatedOps == {"Trainer", "exp_manager", "use_cache=False"} \cup LoadOps \cup EvaluationOps

\* the delegated calls of the run, in order, the two ways of loading named "load"
Delegated ==
    LET F[i \in 0 .. Len(calls)] ==
            IF i = 0 THEN <<>>
            ELSE IF calls[i].op \in LoadOps THEN Append(F[i - 1], "load")
            ELSE IF calls[i].op \in DelegatedOps THEN Append(F[i - 1], calls[i].op)
            ELSE F[i - 1]
    IN F[Len(calls)]

CompletedOrder == <<"Trainer", "exp_manager", "load", "update_data_dir", "use_cache=False",
                    "prepare_test", "setup_test_data", "trainer.test",
                    "evaluate_from_file", "add_predictions">>

C9_Inv ==
    /\ pc = "done" => Delegated = CompletedOrder /\ error = "none" /\ ~model.use_cache
    /\ pc = "aborted" => error # "none"
    /\ \E n \in 0 .. Len(CompletedOrder) : Delegated = SubSeq(CompletedOrder, 1, n)

C9_TerminatesInOrder == <>Terminated /\ []C9_Inv

C9_Witness ==
    /\ pc = "done"
    /\ Len(calls) > Len(CompletedOrder)
    /\ model.source = "from_pretrained"

\* C10: the trainer is constructed with gpus = 0 when cfg.trainer.gpus is 0 and
\* with gpus = 1 otherwise, never with more than one GPU.
C10_SingleGpu ==
    trainer.constructed =>
        /\ trainer.gpus = (IF cfg.gpus = 0 THEN 0 ELSE 1)
        /\ trainer.gpus <= 1

C10_Witness ==
    /\ trainer.constructed
    /\ cfg.gpus > 1
    /\ trainer.gpus = 1

====
